---- MODULE Spec2Model ----
(***************************************************************************)
(* Document model of the wireframe designer: CanvasManager (root sequence, *)
(* single and multi selection, snapshot history and cursor) over the       *)
(* component classes (BaseComponent, the leaf variants, GroupComponent).   *)
(*                                                                         *)
(* Python objects live in `heap`: a sequence of object records, an object  *)
(* reference being its index (0 is None).  Object identity is only         *)
(* observable through `in` / `==` / `remove`, so after every handler the   *)
(* heap is garbage-collected and renumbered in traversal order (Commit).   *)
(* uuid4() is modelled as "an id that is in use nowhere" (FreshIds).       *)
(* Geometry is integer; the float divisions of GroupComponent.resize and   *)
(* distribute_components are computed exactly and the inputs for which the *)
(* quotient is not an integer are left out of the input sets.              *)
(* The style fields (fill_color .. opacity) are copied verbatim by to_dict *)
(* and from_dict exactly as `text` is; `text` stands for all of them.      *)
(***************************************************************************)
EXTENDS Integers, Sequences, FiniteSets, TLC

VARIABLES heap, components, selected_component, selected_components,
          history, history_index,
          ops, navs, cap, last, preDoc, law, script,
          app

vars == <<heap, components, selected_component, selected_components,
          history, history_index, ops, navs, cap, last, preDoc, law,
          script, app>>

progVars == <<heap, components, selected_component, selected_components,
              history, history_index>>

\* ---------------------------------------------------------------- bounds
MaxOps == 4
MaxObjects == 3
MaxHistOps == 54
MaxHistNavs == 2

\* ------------------------------------------------------ program constants
max_history == 50
MinSize == 10
CloneOffset == 20
grid_size == 20

None == 0

\* ------------------------------------------------------ generic helpers
Range(s) == {s[i] : i \in DOMAIN s}

Max(a, b) == IF a >= b THEN a ELSE b

IndexOf(s, e) == CHOOSE i \in DOMAIN s : s[i] = e

RemoveAt(s, i) == [k \in 1..(Len(s) - 1) |-> IF k < i THEN s[k] ELSE s[k + 1]]

\* (variant: nothing is dropped)
Remove_nothing(s, e) == s

\* list.remove(e): drops the first occurrence
Remove(s, e) == IF e \in Range(s)
                THEN RemoveAt(s, CHOOSE i \in DOMAIN s :
                                    s[i] = e /\ \A k \in 1..(i - 1) : s[k] # e)
                ELSE s

Get(d, k, default) == IF k \in DOMAIN d THEN d[k] ELSE default

\* ------------------------------------------------------ component classes
component_classes == {"rectangle", "button", "input", "text", "group"}

DefaultWidth(t) == CASE t = "rectangle" -> 120 [] t = "button" -> 120
                     [] t = "input" -> 200 [] t = "text" -> 100
                     [] OTHER -> 100

DefaultHeight(t) == CASE t = "rectangle" -> 80 [] t = "button" -> 40
                      [] t = "input" -> 36 [] t = "text" -> 30
                      [] OTHER -> 100

GroupText(n) == CASE n = 0 -> "Group (0 items)" [] n = 1 -> "Group (1 items)"
                  [] n = 2 -> "Group (2 items)" [] n = 3 -> "Group (3 items)"
                  [] OTHER -> "Group (n items)"

get_default_text(t, n) == CASE t = "button" -> "Button"
                            [] t = "text" -> "Text Label"
                            [] t = "group" -> GroupText(n)
                            [] OTHER -> ""

\* BaseComponent.__init__ for a leaf class constructed as cls(x, y)
NewLeaf(t, id, x, y) ==
    [id |-> id, type |-> t, x |-> x, y |-> y,
     width |-> DefaultWidth(t), height |-> DefaultHeight(t),
     text |-> get_default_text(t, 0), children |-> <<>>, group_id |-> None,
     parent_group |-> None]

\* GroupComponent._calculate_bounds over the child objects of heap h
calculate_bounds(h, kids) ==
    IF kids = <<>> THEN <<0, 0, 100, 100>>
    ELSE LET K == Range(kids)
             min_x == CHOOSE v \in {h[c].x : c \in K} :
                         \A c \in K : v <= h[c].x
             min_y == CHOOSE v \in {h[c].y : c \in K} :
                         \A c \in K : v <= h[c].y
             max_x == CHOOSE v \in {h[c].x + h[c].width : c \in K} :
                         \A c \in K : v >= h[c].x + h[c].width
             max_y == CHOOSE v \in {h[c].y + h[c].height : c \in K} :
                         \A c \in K : v >= h[c].y + h[c].height
         IN <<min_x, min_y, max_x - min_x, max_y - min_y>>

\* GroupComponent.__init__(components, x, y)
NewGroup(h, kids, id, gid, x, y) ==
    LET b == IF kids # <<>> THEN calculate_bounds(h, kids)
             ELSE <<x, y, 100, 100>>
    IN [id |-> id, type |-> "group", x |-> b[1], y |-> b[2],
        width |-> b[3], height |-> b[4],
        text |-> get_default_text("group", Len(kids)),
        children |-> kids, group_id |-> gid, parent_group |-> None]

\* ------------------------------------------------------ serialization
RECURSIVE to_dict(_, _)
to_dict(h, r) ==
    LET o == h[r]
        base == [id |-> o.id, type |-> o.type, x |-> o.x, y |-> o.y,
                 width |-> o.width, height |-> o.height, text |-> o.text]
    IN IF o.type = "group"
       THEN [id |-> o.id, type |-> o.type, x |-> o.x, y |-> o.y,
             width |-> o.width, height |-> o.height, text |-> o.text,
             group_id |-> o.group_id,
             children |-> [k \in DOMAIN o.children |-> to_dict(h, o.children[k])]]
       ELSE base

get_design_data_of(h, comps) ==
    [version |-> "1.0", components |-> [k \in DOMAIN comps |-> to_dict(h, comps[k])]]

get_design_data == get_design_data_of(heap, components)

\* ids that occur in a serialized record, recursively
RECURSIVE DictIds(_)
DictIds(d) ==
    {d.id} \cup (IF "group_id" \in DOMAIN d THEN {d.group_id} ELSE {})
           \cup (IF "children" \in DOMAIN d
                 THEN UNION {DictIds(d.children[k]) : k \in DOMAIN d.children}
                 ELSE {})

DataIds(data) == UNION {DictIds(data.components[k]) : k \in DOMAIN data.components}

UsedIds(h, hist, ghost) ==
    {h[r].id : r \in DOMAIN h} \cup {h[r].group_id : r \in DOMAIN h}
      \cup UNION {DataIds(hist[k]) : k \in DOMAIN hist}
      \cup UNION {DataIds(ghost[k]) : k \in DOMAIN ghost}
      \cup {None}

\* uuid.uuid4(): the n-th id that is in use nowhere
RECURSIVE FreshFrom(_, _, _)
FreshFrom(used, n, from) ==
    IF n = 0 THEN <<>>
    ELSE IF from \in used THEN FreshFrom(used, n, from + 1)
         ELSE <<from>> \o FreshFrom(used, n - 1, from + 1)

FreshIds(n) == FreshFrom(UsedIds(heap, history, preDoc), n, 1)

\* cls() followed by from_dict(data): BaseComponent.from_dict, and
\* GroupComponent.from_dict, which leaves the children of GroupComponent() empty
from_dict(data, fresh) ==
    LET t == data.type
        o == IF t = "group" THEN NewGroup(<<>>, <<>>, fresh[1], fresh[2], 0, 0)
             ELSE NewLeaf(t, fresh[1], 0, 0)
    IN [id |-> Get(data, "id", o.id), type |-> t,
        x |-> Get(data, "x", o.x), y |-> Get(data, "y", o.y),
        width |-> Get(data, "width", o.width),
        height |-> Get(data, "height", o.height),
        text |-> Get(data, "text", o.text),
        children |-> <<>>,
        group_id |-> IF t = "group" THEN Get(data, "group_id", fresh[2]) ELSE None,
        parent_group |-> None]

\* the loading loop shared by load_design and _restore_state: the objects
\* built from the records whose type is a known class, in order
RECURSIVE LoadObjects(_, _)
LoadObjects(recs, fresh) ==
    IF recs = <<>> THEN <<>>
    ELSE LET d == Head(recs)
         IN IF Get(d, "type", "?") \in component_classes
            THEN <<from_dict(d, fresh)>> \o LoadObjects(Tail(recs), Tail(Tail(fresh)))
            ELSE LoadObjects(Tail(recs), fresh)

\* ------------------------------------------------------ geometry
\* BaseComponent.move, overridden by GroupComponent.move (children first)
RECURSIVE move(_, _, _, _), MoveAll(_, _, _, _)
move(h, r, dx, dy) ==
    LET h1 == MoveAll(h, h[r].children, dx, dy)
    IN [h1 EXCEPT ![r].x = @ + dx, ![r].y = @ + dy]

MoveAll(h, kids, dx, dy) ==
    IF kids = <<>> THEN h
    ELSE MoveAll(move(h, Head(kids), dx, dy), Tail(kids), dx, dy)

\* BaseComponent.set_position (GroupComponent does not override it)
set_position(h, r, x, y) == [h EXCEPT ![r].x = x, ![r].y = y]

\* BaseComponent.resize
base_resize(h, r, w, ht) ==
    [h EXCEPT ![r].width = Max(MinSize, w), ![r].height = Max(MinSize, ht)]

\* GroupComponent.resize
group_resize_guard(o) == o.children = <<>> \/ o.width = 0 \/ o.height = 0

group_resize_own(h, r, w, ht) == [h EXCEPT ![r].width = w, ![r].height = ht]

\* component.resize(w, ht), dispatched on the class.  The result carries
\* `ok`: every float quotient the call computes is an integer (or is
\* replaced by the minimum), so the integer result is the exact one.
RECURSIVE resize(_, _, _, _), ResizeKids(_, _, _, _, _)
resize(h, r, w, ht) ==
    LET o == h[r]
    IN IF o.type # "group" THEN [h |-> base_resize(h, r, w, ht), ok |-> TRUE]
       ELSE IF group_resize_guard(o) THEN [h |-> h, ok |-> TRUE]
       ELSE LET res == ResizeKids(h, r, o.children, w, ht)
            IN [h |-> group_resize_own(res.h, r, w, ht), ok |-> res.ok]

ResizeKids(h, g, kids, w, ht) ==
    IF kids = <<>> THEN [h |-> h, ok |-> TRUE]
    ELSE LET c == Head(kids)
             G == h[g]
             C == h[c]
             pos == G.width > 0 /\ G.height > 0
             GW == IF pos THEN G.width ELSE 1
             GH == IF pos THEN G.height ELSE 1
             xn == (C.x - G.x) * w
             yn == (C.y - G.y) * ht
             wn == C.width * w
             hn == C.height * ht
             smallW == wn <= MinSize * GW
             smallH == hn <= MinSize * GH
             exact == /\ pos
                      /\ xn % GW = 0 /\ yn % GH = 0
                      /\ (smallW \/ wn % GW = 0)
                      /\ (smallH \/ hn % GH = 0)
             h1 == set_position(h, c, G.x + (xn \div GW), G.y + (yn \div GH))
             r1 == resize(h1, c, IF smallW THEN MinSize ELSE wn \div GW,
                                 IF smallH THEN MinSize ELSE hn \div GH)
             rest == ResizeKids(r1.h, g, Tail(kids), w, ht)
         IN [h |-> rest.h, ok |-> exact /\ r1.ok /\ rest.ok]

\* BaseComponent.is_point_inside, overridden by GroupComponent.is_point_inside
RECURSIVE is_point_inside(_, _, _, _)
is_point_inside(h, r, x, y) ==
    LET o == h[r]
    IN IF o.type = "group"
       THEN \E k \in DOMAIN o.children : is_point_inside(h, o.children[k], x, y)
       ELSE /\ o.x <= x /\ x <= o.x + o.width
            /\ o.y <= y /\ y <= o.y + o.height

\* the loop of get_component_at_position over reversed(self.components),
\* from the k-th root member down
RECURSIVE FirstHitFrom(_, _, _)
FirstHitFrom(k, x, y) ==
    IF k = 0 THEN None
    ELSE IF is_point_inside(heap, components[k], x, y) THEN components[k]
         ELSE FirstHitFrom(k - 1, x, y)

\* (variant: the root members are searched in drawing order)
get_component_at_position_bottom_up(x, y) ==
    LET hits == {k \in DOMAIN components :
                    is_point_inside(heap, components[k], x, y)}
    IN IF hits = {} THEN None
       ELSE components[CHOOSE k \in hits : \A j \in hits : k <= j]

\* CanvasManager.get_component_at_position
get_component_at_position(x, y) == FirstHitFrom(Len(components), x, y)

\* round(v / 20) * 20 with Python's round-half-to-even
RoundToGrid(v) ==
    LET q == v \div grid_size
        r == v % grid_size
    IN grid_size * (IF 2 * r < grid_size THEN q
                    ELSE IF 2 * r > grid_size THEN q + 1
                    ELSE IF q % 2 = 0 THEN q ELSE q + 1)

\* BaseComponent.clone / GroupComponent.clone: <<heap, clone, unused ids>>
RECURSIVE clone(_, _, _), CloneKids(_, _, _, _)
clone(h, r, fresh) ==
    LET o == h[r]
        clone_data == [to_dict(h, r) EXCEPT !.id = fresh[1],
                                            !.x = @ + CloneOffset,
                                            !.y = @ + CloneOffset]
    IN IF o.type # "group"
       THEN <<Append(h, from_dict(clone_data, Tail(fresh))),
              Len(h) + 1, Tail(fresh)>>
       ELSE LET ck == CloneKids(h, o.children, fresh, <<>>)
                g == NewGroup(ck[1], ck[2], ck[3][1], ck[3][2],
                              o.x + CloneOffset, o.y + CloneOffset)
            IN <<Append(ck[1], g), Len(ck[1]) + 1, Tail(Tail(ck[3]))>>

CloneKids(h, kids, fresh, acc) ==
    IF kids = <<>> THEN <<h, acc, fresh>>
    ELSE LET c == clone(h, Head(kids), fresh)
         IN CloneKids(c[1], Tail(kids), c[3], Append(acc, c[2]))

RECURSIVE SubtreeSize(_, _)
SubtreeSize(h, r) ==
    LET kids == h[r].children
        sz[k \in 0..Len(kids)] ==
            IF k = 0 THEN 0 ELSE sz[k - 1] + SubtreeSize(h, kids[k])
    IN 1 + sz[Len(kids)]

\* ------------------------------------------------------ heap bookkeeping
RECURSIVE Visit(_, _, _)
Visit(h, todo, acc) ==
    IF todo = <<>> THEN acc
    ELSE LET r == Head(todo)
         IN IF r = None \/ r \in Range(acc) THEN Visit(h, Tail(todo), acc)
            ELSE Visit(h, h[r].children \o Tail(todo), Append(acc, r))

\* the handler's result: unreachable objects dropped, references renumbered
Commit(h, comps, sel, multi) ==
    LET order == Visit(h, comps \o <<sel>> \o multi, <<>>)
        ren(r) == IF r = None THEN None ELSE IndexOf(order, r)
    IN /\ heap' = [i \in 1..Len(order) |->
                     [h[order[i]] EXCEPT !.children =
                         [k \in DOMAIN @ |-> ren(@[k])]]]
       /\ components' = [k \in DOMAIN comps |-> ren(comps[k])]
       /\ selected_component' = ren(sel)
       /\ selected_components' = [k \in DOMAIN multi |-> ren(multi[k])]

\* ------------------------------------------------------ history engine
\* list[i] with Python's negative indices
PyIndex(s, i) == IF i >= 0 THEN s[i + 1] ELSE s[Len(s) + i + 1]

\* (variant: the redo branch is kept)
TrimmedHistory_kept == history

\* self.history[:self.history_index + 1]
TrimmedHistory == SubSeq(history, 1, history_index + 1)

\* (variant: the history grows without a cap)
save_state_uncapped ==
    <<Append(TrimmedHistory, get_design_data), history_index + 1>>

\* (variant: the cursor advances also when the oldest entry is dropped)
save_state_always_advances ==
    LET h1 == Append(TrimmedHistory, get_design_data)
    IN IF Len(h1) > max_history
       THEN <<Tail(h1), history_index + 1>>
       ELSE <<h1, history_index + 1>>

\* CanvasManager._save_state: <<history, history_index>> after the call
save_state ==
    LET h1 == Append(TrimmedHistory, get_design_data)
    IN IF Len(h1) > max_history
       THEN <<Tail(h1), history_index>>
       ELSE <<h1, history_index + 1>>

\* (variant: undo also steps back from the first entry)
undo_guard_from_first == history_index >= 0

undo_guard == history_index > 0

redo_guard == history_index < Len(history) - 1

\* CanvasManager._restore_state(state)
restore_state(state) ==
    LET objs == LoadObjects(state.components, FreshIds(2 * Len(state.components)))
        h1 == heap \o objs
        comps == [k \in DOMAIN objs |-> Len(heap) + k]
    IN Commit(h1, comps, None, selected_components)

\* ------------------------------------------------------ run bookkeeping
\* ops: handler calls left in the run; navs: undo/redo calls left (-1: no
\* separate limit); cap: the number of live objects the run stays within.
\* last: the handler that ran last, its argument (a component type, or a
\* reference into the heap it found, a file content, None when none is
\* recorded), the cursor and the history length it found, whether it called
\* _save_state, and whether it ended in an error shown to the user.
\* law, preDoc: law = 1 while every call of the run so far was a snapshotting
\* mutation, 2 after the undo that follows them, 3 after the redo that
\* follows that undo, else 0; preDoc = <<document before the last of those
\* mutations, document after it>> while law > 0.
\* script: progress through the scenario "empty manager, add rectangle, add
\* button, delete the button, undo" (0: not on it).
CalledWith(name, c, snapped, error) ==
    /\ ops > 0
    /\ ops' = ops - 1
    /\ cap' = cap
    /\ app' = app
    /\ last' = [op |-> name, arg |-> c, cursor |-> history_index,
                len |-> Len(history), snapped |-> snapped, error |-> error]

CalledOn(name, c, snapped) == CalledWith(name, c, snapped, FALSE)

Called(name, snapped) == CalledOn(name, None, snapped)

Nav == /\ navs # 0
       /\ navs' = IF navs > 0 THEN navs - 1 ELSE navs

Follow(snapped, sc) ==
    /\ UNCHANGED navs
    /\ script' = sc
    /\ law' = IF snapped /\ (law = 1 \/ last.op = "init") THEN 1 ELSE 0
    /\ preDoc' = IF law' = 1 THEN <<get_design_data, get_design_data'>> ELSE <<>>

Saved == /\ history' = save_state[1]
         /\ history_index' = save_state[2]

FreshManager == /\ last.op = "init"
                /\ components = <<>>
                /\ history = <<>>

\* ------------------------------------------------------ initial state
\* The session starts with an empty canvas manager; when an auto-save file
\* is recovered at launch, MainWindow.check_auto_save_recovery passes its
\* design to load_design before the first user action.  SavedDesign is the
\* design such a file holds after: add rectangle, add button, drag the
\* button to (160,140).
EmptyDesign == [version |-> "1.0", components |-> <<>>]

SavedDesign ==
    [version |-> "1.0",
     components |->
        << [id |-> 1, type |-> "rectangle", x |-> 100, y |-> 100,
            width |-> 120, height |-> 80, text |-> ""],
           [id |-> 2, type |-> "button", x |-> 160, y |-> 140,
            width |-> 120, height |-> 40, text |-> "Button"] >>]

StartupDesigns == {EmptyDesign, SavedDesign}

\* app: the MainWindow around the manager (NoWindow: the manager is used
\* on its own)
NoWindow == [phase |-> "none"]

NewManager(data) ==
    /\ heap = LoadObjects(data.components,
                          FreshFrom(DataIds(data) \cup {None},
                                    2 * Len(data.components), 1))
    /\ components = [k \in DOMAIN data.components |-> k]
    /\ selected_component = None
    /\ selected_components = <<>>
    /\ history = <<>>
    /\ history_index = -1
    /\ last = [op |-> "init", arg |-> None, cursor |-> -1, len |-> 0,
               snapped |-> FALSE, error |-> FALSE]
    /\ preDoc = <<>>
    /\ law = 0
    /\ script = 0

Started(data) == NewManager(data) /\ app = NoWindow

Init == /\ \E data \in StartupDesigns : Started(data)
        /\ ops = MaxOps
        /\ navs = -1
        /\ cap = MaxObjects

\* ------------------------------------------------------ operations
\* (variant: every component counts as a root member)
in_components_any(c) == TRUE

\* `component in self.components`
in_components(c) == c \in Range(components)

AddTypes == {"rectangle", "button"}

\* CanvasManager.add_component(component_type) with the default x=100, y=100
add_component(t) ==
    IF t \in component_classes
    THEN /\ Len(heap) < cap
         /\ Saved
         /\ Commit(Append(heap, NewLeaf(t, FreshIds(1)[1], 100, 100)),
                   Append(components, Len(heap) + 1),
                   selected_component, selected_components)
    ELSE UNCHANGED progVars

AddComponent(t) ==
    /\ CalledOn("add", t, t \in component_classes)
    /\ add_component(t)
    /\ Follow(t \in component_classes,
              IF FreshManager /\ t = "rectangle" THEN 1
              ELSE IF script = 1 /\ t = "button" THEN 2 ELSE 0)

\* CanvasManager.delete_component(component)
DeleteComponent(c) ==
    /\ CalledOn("delete", c, in_components(c))
    /\ IF in_components(c)
       THEN /\ Saved
            /\ Commit(heap, Remove(components, c),
                      IF selected_component = c THEN None
                      ELSE selected_component,
                      selected_components)
       ELSE UNCHANGED progVars
    /\ Follow(in_components(c),
              IF script = 2 /\ in_components(c)
                            /\ heap[c].type = "button" THEN 3 ELSE 0)

\* CanvasManager.clear_canvas
ClearCanvas ==
    /\ Called("clear", components # <<>>)
    /\ IF components # <<>> THEN Saved ELSE UNCHANGED <<history, history_index>>
    /\ Commit(heap, <<>>, None, selected_components)
    /\ Follow(components # <<>>, 0)

\* CanvasManager.undo
Undo ==
    /\ Called("undo", FALSE)
    /\ Nav
    /\ IF undo_guard
       THEN /\ history_index' = history_index - 1
            /\ restore_state(PyIndex(history, history_index'))
       ELSE UNCHANGED <<heap, components, selected_component,
                        selected_components, history_index>>
    /\ UNCHANGED history
    /\ script' = IF script = 3 THEN 4 ELSE 0
    /\ law' = IF law = 1 THEN 2 ELSE 0
    /\ preDoc' = IF law = 1 THEN preDoc ELSE <<>>

\* CanvasManager.redo
Redo ==
    /\ Called("redo", FALSE)
    /\ Nav
    /\ IF redo_guard
       THEN /\ history_index' = history_index + 1
            /\ restore_state(PyIndex(history, history_index'))
       ELSE UNCHANGED <<heap, components, selected_component,
                        selected_components, history_index>>
    /\ UNCHANGED history
    /\ script' = 0
    /\ law' = IF law = 2 THEN 3 ELSE 0
    /\ preDoc' = IF law = 2 THEN preDoc ELSE <<>>

\* CanvasManager.duplicate_component(component)
DuplicateComponent(c) ==
    /\ CalledOn("duplicate", c, in_components(c))
    /\ IF in_components(c)
       THEN /\ Len(heap) + SubtreeSize(heap, c) <= cap
            /\ Saved
            /\ LET cl == clone(heap, c, FreshIds(2 * cap + 2))
               IN Commit(cl[1], Append(components, cl[2]),
                         selected_component, selected_components)
       ELSE UNCHANGED progVars
    /\ Follow(in_components(c), 0)

MoveOffsets == {<<20, 0>>}

\* CanvasManager.move_component(component, dx, dy)
\* (the arrow keys do the same move on the selected component)
MoveComponent(c, d) ==
    /\ CalledOn("move", c, FALSE)
    /\ IF in_components(c)
       THEN Commit(move(heap, c, d[1], d[2]), components,
                   selected_component, selected_components)
       ELSE UNCHANGED <<heap, components, selected_component,
                        selected_components>>
    /\ UNCHANGED <<history, history_index>>
    /\ Follow(FALSE, 0)

ResizeTargets == {<<6, 40>>}

\* CanvasManager.resize_component(component, width, height)
\* (PropertiesPanel.on_size_change makes the same call on the shown component)
ResizeComponent(c, t) ==
    /\ CalledOn("resize", c, FALSE)
    /\ IF in_components(c)
       THEN /\ resize(heap, c, t[1], t[2]).ok
            /\ Commit(resize(heap, c, t[1], t[2]).h, components,
                      selected_component, selected_components)
       ELSE UNCHANGED <<heap, components, selected_component,
                        selected_components>>
    /\ UNCHANGED <<history, history_index>>
    /\ Follow(FALSE, 0)

DragDeltas == {<<28, -12>>}

\* DesignCanvas._handle_component_drag on the clicked root component, with
\* snap_to_grid on (its initial value)
DragComponent(c, d) ==
    /\ Called("drag", FALSE)
    /\ c \in Range(components)
    /\ Commit(set_position(heap, c, RoundToGrid(heap[c].x + d[1]),
                                    RoundToGrid(heap[c].y + d[2])),
              components, selected_component, selected_components)
    /\ UNCHANGED <<history, history_index>>
    /\ Follow(FALSE, 0)

PanelPositions == {<<0, 0>>}

\* PropertiesPanel.on_position_change on the component the panel shows
PanelSetPosition(c, p) ==
    /\ Called("panel_position", FALSE)
    /\ c \in Range(components)
    /\ Commit(set_position(heap, c, p[1], p[2]),
              components, selected_component, selected_components)
    /\ UNCHANGED <<history, history_index>>
    /\ Follow(FALSE, 0)

PanelTexts == {"Title"}

\* PropertiesPanel.on_text_change on the component the panel shows
PanelSetText(c, txt) ==
    /\ CalledOn("panel_text", c, FALSE)
    /\ Commit([heap EXCEPT ![c].text = txt],
              components, selected_component, selected_components)
    /\ UNCHANGED <<history, history_index>>
    /\ Follow(FALSE, 0)

\* ---- alignment (CanvasManager.align_components, over all root members)
MinOf(S) == CHOOSE v \in S : \A w \in S : v <= w

MaxOf(S) == CHOOSE v \in S : \A w \in S : v >= w

SumOver(f, n) ==
    LET acc[k \in 0..n] == IF k = 0 THEN 0 ELSE acc[k - 1] + f[k]
    IN acc[n]

AlignTypes == {"left", "top"}

\* (variant: align_components leaves every object where it is)
AlignedPosition_unmoved(alignment_type, o) == <<o.x, o.y>>

\* the position align_components gives to object o
AlignedPosition(alignment_type, o) ==
    LET C == {heap[c] : c \in Range(components)}
        n == Len(components)
        avg_x == SumOver([k \in 1..n |-> heap[components[k]].x
                              + (heap[components[k]].width \div 2)], n) \div n
        avg_y == SumOver([k \in 1..n |-> heap[components[k]].y
                              + (heap[components[k]].height \div 2)], n) \div n
    IN CASE alignment_type = "left" -> <<MinOf({q.x : q \in C}), o.y>>
         [] alignment_type = "right" ->
                <<MaxOf({q.x + q.width : q \in C}) - o.width, o.y>>
         [] alignment_type = "top" -> <<o.x, MinOf({q.y : q \in C})>>
         [] alignment_type = "bottom" ->
                <<o.x, MaxOf({q.y + q.height : q \in C}) - o.height>>
         [] alignment_type = "center_horizontal" ->
                <<avg_x - (o.width \div 2), o.y>>
         [] alignment_type = "center_vertical" ->
                <<o.x, avg_y - (o.height \div 2)>>
         [] OTHER -> <<o.x, o.y>>

AlignComponents(alignment_type) ==
    /\ CalledOn("align", alignment_type, Len(components) >= 2)
    /\ IF Len(components) >= 2
       THEN /\ Saved
            /\ Commit([r \in DOMAIN heap |->
                         IF r \in Range(components)
                         THEN [heap[r] EXCEPT
                                 !.x = AlignedPosition(alignment_type, heap[r])[1],
                                 !.y = AlignedPosition(alignment_type, heap[r])[2]]
                         ELSE heap[r]],
                      components, selected_component, selected_components)
       ELSE UNCHANGED progVars
    /\ Follow(Len(components) >= 2, 0)

\* ---- distribution (CanvasManager.distribute_components)
\* sorted(self.components, key): stable, so ties keep the root order
\* (variant: the components are taken in root order, unsorted)
SortedBy_unsorted(key) == components

SortedBy(key) ==
    LET n == Len(components)
        rank(k) == Cardinality({j \in 1..n :
                       \/ key[j] < key[k]
                       \/ (key[j] = key[k] /\ j < k)}) + 1
    IN [p \in 1..n |-> components[CHOOSE k \in 1..n : rank(k) = p]]

DistributionTypes == {"horizontal"}

DistributeComponents(distribution_type) ==
    /\ CalledOn("distribute", distribution_type, Len(components) >= 3)
    /\ IF Len(components) < 3 THEN UNCHANGED progVars ELSE
       LET hor == distribution_type = "horizontal"
           n == Len(components)
           pos(r) == IF hor THEN heap[r].x ELSE heap[r].y
           size(r) == IF hor THEN heap[r].width ELSE heap[r].height
           srt == SortedBy([k \in 1..n |-> pos(components[k])])
           first == pos(srt[1])
           total == pos(srt[n]) + size(srt[n]) - first
           sizes == SumOver([k \in 1..n |-> size(srt[k])], n)
           available == total - sizes
           \* current position before the i-th sorted component is placed
           before(i) == first + SumOver([k \in 1..n |-> size(srt[k])], i - 1)
                              + (((i - 1) * available) \div (n - 1))
       IN /\ \A i \in 1..n : ((i - 1) * available) % (n - 1) = 0
          /\ Saved
          /\ Commit([r \in DOMAIN heap |->
                       IF r \in Range(components)
                       THEN IF hor
                            THEN [heap[r] EXCEPT !.x = before(IndexOf(srt, r))]
                            ELSE [heap[r] EXCEPT !.y = before(IndexOf(srt, r))]
                       ELSE heap[r]],
                    components, selected_component, selected_components)
    /\ Follow(Len(components) >= 3, 0)

\* ---- selection
\* CanvasManager.select_component(component)
SelectComponent(c) ==
    /\ Called("select", FALSE)
    /\ c \in Range(components)
    /\ c # selected_component
    /\ Commit(heap, components, c, selected_components)
    /\ UNCHANGED <<history, history_index>>
    /\ Follow(FALSE, 0)

\* CanvasManager.clear_selection
ClearSelection ==
    /\ Called("clear_selection", FALSE)
    /\ selected_component # None
    /\ Commit(heap, components, None, selected_components)
    /\ UNCHANGED <<history, history_index>>
    /\ Follow(FALSE, 0)

\* CanvasManager.add_to_selection(component) (ctrl-click passes the root
\* member under the pointer)
AddToSelection(c) ==
    /\ Called("add_to_selection", FALSE)
    /\ c \notin Range(selected_components)
    /\ Commit(heap, components, selected_component,
              Append(selected_components, c))
    /\ UNCHANGED <<history, history_index>>
    /\ Follow(FALSE, 0)

\* CanvasManager.remove_from_selection(component)
RemoveFromSelection(c) ==
    /\ Called("remove_from_selection", FALSE)
    /\ c \in Range(selected_components)
    /\ Commit(heap, components, selected_component,
              Remove(selected_components, c))
    /\ UNCHANGED <<history, history_index>>
    /\ Follow(FALSE, 0)

\* CanvasManager.clear_multi_selection
ClearMultiSelection ==
    /\ Called("clear_multi_selection", FALSE)
    /\ selected_components # <<>>
    /\ Commit(heap, components, selected_component, <<>>)
    /\ UNCHANGED <<history, history_index>>
    /\ Follow(FALSE, 0)

\* ---- composition
\* GroupComponent.ungroup: the children lose their back-reference and the
\* group its children
ungroup(h, g) ==
    [r \in DOMAIN h |->
        IF r = g THEN [h[r] EXCEPT !.children = <<>>]
        ELSE IF r \in Range(h[g].children)
             THEN [h[r] EXCEPT !.parent_group = None]
             ELSE h[r]]

\* CanvasManager.is_component_grouped(component)
is_component_grouped(h, r) == h[r].parent_group # None

\* (variant: the grouped components stay in the root sequence)
RemoveAll_none(s, es) == s

RECURSIVE RemoveAll(_, _)
RemoveAll(s, es) ==
    IF es = <<>> THEN s ELSE RemoveAll(Remove(s, Head(es)), Tail(es))

\* CanvasManager.group_selected_components
GroupSelectedComponents ==
    /\ Called("group", Len(selected_components) >= 2)
    /\ IF Len(selected_components) >= 2
       THEN /\ Len(heap) < cap
            /\ Saved
            /\ LET fresh == FreshIds(2)
                   g == NewGroup(heap, selected_components, fresh[1], fresh[2],
                                 0, 0)
                   gref == Len(heap) + 1
               IN Commit(Append(heap, g),
                         Append(RemoveAll(components, selected_components), gref),
                         gref, <<>>)
       ELSE UNCHANGED progVars
    /\ Follow(Len(selected_components) >= 2, 0)

\* CanvasManager.ungroup_component(group) with GroupComponent.ungroup
UngroupComponent(g) ==
    /\ CalledOn("ungroup", g, heap[g].type = "group")
    /\ IF heap[g].type = "group"
       THEN /\ Saved
            /\ Commit(ungroup(heap, g),
                      Remove(components, g) \o heap[g].children,
                      None, selected_components)
       ELSE UNCHANGED progVars
    /\ Follow(heap[g].type = "group", 0)

\* ---- persistence
\* CanvasManager.load_design(design_data); the data is what get_design_data
\* returns now (a save followed by an open of the saved file)
\* (variant: the history survives the load)
load_design_history_kept == <<history, history_index>>

\* self.history.clear(); self.history_index = -1
load_design_history == <<<<>>, -1>>

load_design(data) ==
    /\ LET recs == Get(data, "components", <<>>)
           objs == LoadObjects(recs, FreshIds(2 * Len(recs)))
       IN Commit(heap \o objs, [k \in DOMAIN objs |-> Len(heap) + k],
                 None, selected_components)
    /\ history' = load_design_history[1]
    /\ history_index' = load_design_history[2]

LoadDesign(data) ==
    /\ Called("load", FALSE)
    /\ load_design(data)
    /\ Follow(FALSE, 0)

\* ---- files
\* The parsed content of a design file: {"metadata": .., "design": <value>},
\* the value being a JSON object (the design) or, malformed, a JSON array.
JsonDict(d) == [design |-> [json |-> "dict", value |-> d]]

JsonList == [design |-> [json |-> "list"]]

\* designs a file can hold: a well-formed one, one with a record of a type
\* the application does not know, one with a record that lacks its width,
\* one without a component list
UnknownTypeDesign ==
    [version |-> "1.0",
     components |->
        << [id |-> 1, type |-> "circle", x |-> 40, y |-> 40,
            width |-> 60, height |-> 60, text |-> ""],
           [id |-> 2, type |-> "button", x |-> 160, y |-> 140,
            width |-> 120, height |-> 40, text |-> "Button"] >>]

MissingFieldDesign ==
    [version |-> "1.0",
     components |->
        << [id |-> 1, type |-> "rectangle", x |-> 100, y |-> 100,
            height |-> 80, text |-> ""] >>]

NoComponentsDesign == [version |-> "1.0"]

FileContents == {JsonDict(SavedDesign), JsonDict(UnknownTypeDesign),
                 JsonDict(MissingFieldDesign), JsonDict(NoComponentsDesign),
                 JsonList}

\* FileManager.load_design on the parsed content: the design, or a failure
file_manager_load_design(content) ==
    IF content.design.json # "dict"
    THEN [failed |-> TRUE, data |-> EmptyDesign]
    ELSE [failed |-> FALSE,
          data |-> IF "components" \in DOMAIN content.design.value
                   THEN content.design.value
                   ELSE content.design.value @@ [components |-> <<>>]]

\* FileManager.validate_design_data (no caller in the application)
validate_design_data(content) ==
    /\ content.design.json = "dict"
    /\ "components" \in DOMAIN content.design.value
    /\ \A k \in DOMAIN content.design.value.components :
          LET component == content.design.value.components[k]
          IN /\ {"id", "type", "x", "y", "width", "height"}
                   \subseteq DOMAIN component
             /\ component.type \in {"rectangle", "button", "input", "text"}

\* MainWindow.open_file once the user has chosen a file with this content
OpenFile(content) ==
    LET res == file_manager_load_design(content)
    IN /\ CalledWith("open", content, FALSE, res.failed)
       /\ IF res.failed THEN UNCHANGED progVars ELSE load_design(res.data)
       /\ Follow(FALSE, 0)

\* the component the canvas and the properties panel edit: the one a click
\* has selected
EditTargets == Range(components) \cap {selected_component}

Next == \/ \E t \in AddTypes : AddComponent(t)
        \/ \E c \in Range(components) : DeleteComponent(c)
        \/ \E c \in Range(components) : DuplicateComponent(c)
        \/ \E c \in EditTargets, d \in MoveOffsets : MoveComponent(c, d)
        \/ \E c \in EditTargets, t \in ResizeTargets : ResizeComponent(c, t)
        \/ \E c \in EditTargets, d \in DragDeltas : DragComponent(c, d)
        \/ \E c \in EditTargets, p \in PanelPositions : PanelSetPosition(c, p)
        \/ ClearCanvas
        \/ \E a \in AlignTypes : Len(components) >= 2 /\ AlignComponents(a)
        \/ \E a \in DistributionTypes :
               Len(components) >= 3 /\ DistributeComponents(a)
        \/ \E c \in Range(components) : SelectComponent(c)
        \/ ClearSelection
        \/ \E c \in Range(components) : AddToSelection(c)
        \/ \E c \in Range(selected_components) : RemoveFromSelection(c)
        \/ ClearMultiSelection
        \/ Len(selected_components) >= 2 /\ GroupSelectedComponents
        \/ \E c \in EditTargets :
               heap[c].type = "group" /\ UngroupComponent(c)
        \/ LoadDesign(get_design_data)
        \/ Undo
        \/ Redo

Spec == Init /\ [][Next]_vars

\* ------------------------------------------------------ long histories
\* A session long enough to fill the history: the user adds a rectangle to
\* the empty canvas, deletes it, adds one again, ... with a few undo/redo
\* calls anywhere in between.
InitHist == /\ Started(EmptyDesign)
            /\ ops = MaxHistOps
            /\ navs = MaxHistNavs
            /\ cap = MaxObjects

AddToEmptyCanvas == components = <<>> /\ AddComponent("rectangle")

NextHist == \/ AddToEmptyCanvas
            \/ \E c \in Range(components) : DeleteComponent(c)
            \/ Undo
            \/ Redo

SpecHist == InitHist /\ [][NextHist]_vars

\* ------------------------------------------------------ manager interface
\* The calls the manager accepts from any caller: selection, grouping and
\* ungrouping of any live component, and the calls it ignores (an unknown
\* type, a component that is not a root member, too few components).
MaxApiOps == 6
MaxApiObjects == 4

InitApi == /\ Started(SavedDesign)
           /\ ops = MaxApiOps
           /\ navs = 0
           /\ cap = MaxApiObjects

UnknownTypes == {"circle"}

NotInRoot == DOMAIN heap \ Range(components)

NextApi == \/ \E c \in DOMAIN heap : AddToSelection(c)
           \/ \E c \in Range(selected_components) : RemoveFromSelection(c)
           \/ GroupSelectedComponents
           \/ \E g \in DOMAIN heap : UngroupComponent(g)
           \/ \E t \in UnknownTypes : AddComponent(t)
           \/ \E c \in NotInRoot : DeleteComponent(c)
           \/ \E c \in NotInRoot : DuplicateComponent(c)
           \/ \E c \in NotInRoot, d \in MoveOffsets : MoveComponent(c, d)
           \/ \E c \in NotInRoot, t \in ResizeTargets : ResizeComponent(c, t)
           \/ \E a \in AlignTypes : Len(components) < 2 /\ AlignComponents(a)
           \/ \E a \in DistributionTypes :
                  Len(components) < 3 /\ DistributeComponents(a)

SpecApi == InitApi /\ [][NextApi]_vars

\* ------------------------------------------------------ opening files
MaxFileOps == 3

InitFile == /\ \E data \in StartupDesigns : Started(data)
            /\ ops = MaxFileOps
            /\ navs = -1
            /\ cap = MaxObjects

NextFile == \/ \E t \in AddTypes : AddComponent(t)
            \/ \E c \in Range(components) : SelectComponent(c)
            \/ \E content \in FileContents : OpenFile(content)
            \/ Undo

SpecFile == InitFile /\ [][NextFile]_vars

\* ------------------------------------------------------ duplicating
\* Sessions that build a group, edit the selected component in the
\* properties panel and duplicate root members.
MaxCloneOps == 5
MaxCloneObjects == 6

InitClone == /\ Started(SavedDesign)
             /\ ops = MaxCloneOps
             /\ navs = 0
             /\ cap = MaxCloneObjects

NextClone ==
    \/ \E c \in Range(components) : SelectComponent(c)
    \/ \E c \in Range(components) : AddToSelection(c)
    \/ Len(selected_components) >= 2 /\ GroupSelectedComponents
    \/ \E c \in EditTargets, txt \in PanelTexts : PanelSetText(c, txt)
    \/ \E c \in EditTargets, p \in PanelPositions : PanelSetPosition(c, p)
    \/ \E c \in Range(components) : DuplicateComponent(c)

SpecClone == InitClone /\ [][NextClone]_vars

\* ------------------------------------------------------ properties
\* the objects of the document: the root members and their descendants
DocObjects == Range(Visit(heap, components, <<>>))

\* the handlers that edit the document (everything but selection, load,
\* undo and redo)
DocumentOps == {"add", "delete", "duplicate", "move", "resize", "drag",
                "panel_position", "clear", "group", "ungroup", "align",
                "distribute"}

\* C1: after a run of snapshotting mutations op_1..op_n, one undo() makes
\* get_design_data() equal to the serialized document just before op_n.
C1_UndoRestoresStateBeforeLastOp ==
    law = 2 => get_design_data = preDoc[1]

\* C2: after op_n, undo(), redo(), get_design_data() equals the serialized
\* document just after op_n.
C2_RedoRestoresStateAfterLastOp ==
    law = 3 => get_design_data = preDoc[2]

\* C3: empty manager; add rectangle at (100,100), add button at (100,100):
\* the component at (150,120) is the button; after deleting the button it is
\* the rectangle; after one undo() it is a button again.
TypeAt(x, y) ==
    IF get_component_at_position(x, y) = None THEN "none"
    ELSE heap[get_component_at_position(x, y)].type

C3_DeleteUndoScenario ==
    /\ script = 2 => TypeAt(150, 120) = "button"
    /\ script = 3 => TypeAt(150, 120) = "rectangle"
    /\ script = 4 => TypeAt(150, 120) = "button"

\* C4: a document operation that changes get_design_data() has first
\* appended the pre-mutation state to the history.
C4_SnapshotBeforeEveryChange ==
    [][(last'.op \in DocumentOps /\ get_design_data' # get_design_data)
        => /\ last'.snapped
           /\ history' # <<>>
           /\ history'[Len(history')] = get_design_data]_vars

\* C5: the history never holds more than 50 entries; a snapshot taken when
\* it is full evicts the oldest entry, appends the new one and leaves the
\* cursor where it is.
C5_HistoryCapFifo ==
    [][/\ Len(history') <= max_history
       /\ (last'.snapped /\ Len(history) = max_history
                         /\ history_index = max_history - 1)
            => /\ history' = Tail(history) \o <<get_design_data>>
               /\ history_index' = history_index]_vars

C5_Witness ==
    /\ last.snapped
    /\ last.len = max_history
    /\ last.cursor = max_history - 1
    /\ history[1] # EmptyDesign

\* C6: a snapshot taken while the cursor is not at the last entry discards
\* the entries after the cursor before appending; afterwards the cursor is
\* at the last entry and redo() is a no-op.
C6_SnapshotPrunesRedoBranch ==
    [][(last'.snapped /\ history_index < Len(history) - 1)
        => /\ history' = Append(SubSeq(history, 1, history_index + 1),
                                get_design_data)
           /\ history_index' = Len(history') - 1
           /\ ~redo_guard']_vars

C6_Witness ==
    /\ last.snapped
    /\ last.cursor < last.len - 1
    /\ Len(history) >= 2

\* C7: undo() with the cursor <= 0 and redo() with the cursor at the last
\* entry change neither the root components, nor the selections, nor the
\* history, nor the cursor.
C7_UndoRedoNoOpAtEnds ==
    [][(\/ last'.op = "undo" /\ history_index <= 0
        \/ last'.op = "redo" /\ history_index >= Len(history) - 1)
        => UNCHANGED progVars]_vars

C7_Witness ==
    /\ last.op \in {"undo", "redo"}
    /\ last.cursor = 0
    /\ last.len = 1
    /\ components # <<>>

\* C8: load_design(get_design_data()) yields a document that serializes to
\* the same data: same components, ids, geometry, text and, for a Group, the
\* same children subtree.
C8_LoadOfOwnDataRoundTrips ==
    [][last'.op = "load" => get_design_data' = get_design_data]_vars

\* C9: every component of the document, of every variant, has width >= 10
\* and height >= 10.
C9_MinimumSize ==
    \A r \in DocObjects : heap[r].width >= MinSize /\ heap[r].height >= MinSize

\* C10: every Group of the document that has children has the tight
\* bounding box of its children as its own geometry.
C10_GroupBoundsAreChildrenBBox ==
    \A r \in DocObjects :
        (heap[r].type = "group" /\ heap[r].children # <<>>)
            => <<heap[r].x, heap[r].y, heap[r].width, heap[r].height>>
                   = calculate_bounds(heap, heap[r].children)

\* C11: every component of the multi-selection is a root member or a
\* descendant of a root Group.
C11_MultiSelectionInDocument ==
    \A c \in Range(selected_components) : c \in DocObjects

\* C12: no component is both a root member and a child of a Group of the
\* document, and no component is a child of more than one such Group.
ParentGroups(c) ==
    {g \in DocObjects : heap[g].type = "group" /\ c \in Range(heap[g].children)}

C12_ExclusiveOwnership ==
    \A c \in DOMAIN heap :
        /\ Cardinality(ParentGroups(c)) <= 1
        /\ c \in Range(components) => ParentGroups(c) = {}

\* the serialized form of a sequence of objects of heap h
ToDicts(h, seq) == [k \in DOMAIN seq |-> to_dict(h, seq[k])]

\* the call pushed exactly one snapshot, of the state it found
PushedOneSnapshot ==
    /\ last'.snapped
    /\ Len(history') = history_index + 2
    /\ history'[Len(history')] = get_design_data

C15_IgnoredCallsChangeNothing ==
    [][(\/ /\ last'.op = "add"
           /\ last'.arg \notin component_classes
        \/ /\ last'.op \in {"delete", "duplicate", "move", "resize"}
           /\ last'.arg \notin Range(components)
        \/ /\ last'.op = "group"
           /\ Len(selected_components) < 2
        \/ /\ last'.op = "ungroup"
           /\ heap[last'.arg].type # "group"
        \/ /\ last'.op = "align"
           /\ Len(components) < 2
        \/ /\ last'.op = "distribute"
           /\ Len(components) < 3)
        => UNCHANGED progVars]_vars

C15_Witness ==
    /\ last.op \in {"delete", "duplicate"}
    /\ ~last.snapped
    /\ \E r \in DocObjects : heap[r].type = "group" /\ heap[r].children # <<>>

\* C16: load_design leaves the history empty and the cursor at -1 whatever
\* the history was; an undo or redo issued right after a load changes neither
\* the document nor the history.
C16_LoadStartsFreshHistory ==
    [][/\ last'.op = "load" => (history' = <<>> /\ history_index' = -1)
       /\ (last.op = "load" /\ last'.op \in {"undo", "redo"})
            => (/\ get_design_data' = get_design_data
                /\ UNCHANGED <<history, history_index>>)]_vars

C16_Witness ==
    /\ last.op = "load"
    /\ last.len >= 2
    /\ last.cursor >= 1
    /\ components # <<>>

\* the records of a file's design
FileRecords(content) ==
    IF content.design.json = "dict"
    THEN Get(content.design.value, "components", <<>>)
    ELSE <<>>

\* a record with all of id, type, x, y, width, height and a known type (the
\* geometry of every record of FileContents is numeric)
WellFormedRecord(rec) ==
    /\ {"id", "type", "x", "y", "width", "height"} \subseteq DOMAIN rec
    /\ rec.type \in {"rectangle", "button", "input", "text", "group"}

HasBadRecord(content) ==
    \E k \in DOMAIN FileRecords(content) :
        ~WellFormedRecord(FileRecords(content)[k])

\* C17: opening a design is rejected with an error exactly when one of its
\* component records has an unknown type or lacks a required field.
C17_LoaderValidatesRecords ==
    [][(last'.op = "open" /\ last'.arg.design.json = "dict")
        => (last'.error <=> HasBadRecord(last'.arg))]_vars

\* C18: opening malformed data (not a design object, a record of unknown
\* type, a record without a required field) ends in an error and leaves
\* root components, selections, history and cursor as they were.
C18_FailedLoadChangesNothing ==
    [][(/\ last'.op = "open"
        /\ (last'.arg.design.json # "dict" \/ HasBadRecord(last'.arg)))
        => (last'.error /\ UNCHANGED progVars)]_vars

\* object d of heap h2 is a clone of object c of heap h1: another id, moved
\* by (20, 20), every other field equal, the children clones of the children
RECURSIVE IsCloneOf(_, _, _, _)
IsCloneOf(h1, c, h2, d) ==
    /\ h2[d].id # h1[c].id
    /\ h2[d].x = h1[c].x + 20
    /\ h2[d].y = h1[c].y + 20
    /\ h2[d].type = h1[c].type
    /\ h2[d].width = h1[c].width
    /\ h2[d].height = h1[c].height
    /\ h2[d].text = h1[c].text
    /\ Len(h2[d].children) = Len(h1[c].children)
    /\ \A k \in DOMAIN h1[c].children :
          IsCloneOf(h1, h1[c].children[k], h2, h2[d].children[k])

\* C19: the clone that duplicate_component appends has a new id, is offset
\* by (20, 20) and has every other field of the original; the children of a
\* cloned Group are clones of the original's children.
C19_CloneIdentity ==
    [][(last'.op = "duplicate" /\ last'.arg \in Range(components))
        => IsCloneOf(heap, last'.arg, heap', components'[Len(components')])]_vars

\* the points queried: inside both startup components' first positions, on
\* corners and edges of their boxes, and outside
HitPoints == {<<150, 120>>, <<100, 100>>, <<220, 180>>, <<280, 160>>,
              <<160, 181>>, <<99, 100>>}

\* the point is within the box of leaf r, edges included; for a Group,
\* within some child
RECURSIVE Covers(_, _, _)
Covers(r, x, y) ==
    IF heap[r].type = "group"
    THEN \E k \in DOMAIN heap[r].children : Covers(heap[r].children[k], x, y)
    ELSE /\ heap[r].x <= x /\ x <= heap[r].x + heap[r].width
         /\ heap[r].y <= y /\ y <= heap[r].y + heap[r].height

\* ---- hit testing: components are added to an empty canvas, selected,
\* grouped and repositioned, and the pointer queries the root sequence
MaxHitOps == 5
MaxHitObjects == 4

InitHit == /\ Started(EmptyDesign)
           /\ ops = MaxHitOps
           /\ navs = 0
           /\ cap = MaxHitObjects

NextHit ==
    \/ \E t \in AddTypes : AddComponent(t)
    \/ \E c \in Range(components) : SelectComponent(c)
    \/ \E c \in Range(components) : AddToSelection(c)
    \/ Len(selected_components) >= 2 /\ GroupSelectedComponents
    \/ \E c \in EditTargets, p \in PanelPositions : PanelSetPosition(c, p)
    \/ \E c \in EditTargets : DeleteComponent(c)

SpecHit == InitHit /\ [][NextHit]_vars

\* C20: get_component_at_position returns the last root member that covers
\* the point, and none when no root member does; after add rectangle, add
\* button at the same place, a point inside both gives the button.
C20_TopMostHit ==
    /\ script = 2 => get_component_at_position(150, 120) = components[2]
    /\ \A p \in HitPoints :
          LET hits == {k \in DOMAIN components : Covers(components[k], p[1], p[2])}
          IN IF hits = {} THEN get_component_at_position(p[1], p[2]) = None
             ELSE get_component_at_position(p[1], p[2])
                     = components[CHOOSE k \in hits : \A j \in hits : j <= k]

C20_Witness ==
    \E p \in HitPoints :
        /\ Cardinality({k \in DOMAIN components :
                           Covers(components[k], p[1], p[2])}) >= 2
        /\ get_component_at_position(p[1], p[2]) = components[Len(components)]
        /\ last.op = "add"

\* ======================================================== layout helpers
\* ---- AlignmentHelper (utils/alignment_helper.py), applied to the root
\* sequence.  The helper divides with `/`: its results are kept as exact
\* fractions, a position being given by its numerator over n = len(list).
MaxLayoutOps == 1
MaxLayoutObjects == 3

snap_threshold == 10

Abs(v) == IF v < 0 THEN -v ELSE v

HelperAlignTypes == {"left", "right", "top", "bottom", "center_horizontal",
                     "center_vertical", "center_both"}

\* n times the position AlignmentHelper.align_components gives to object o
HelperAlignedPosition(alignment_type, o) ==
    LET C == {heap[c] : c \in Range(components)}
        n == Len(components)
        sum_x == SumOver([k \in 1..n |-> heap[components[k]].x
                              + (heap[components[k]].width \div 2)], n)
        sum_y == SumOver([k \in 1..n |-> heap[components[k]].y
                              + (heap[components[k]].height \div 2)], n)
        cx == sum_x - n * (o.width \div 2)
        cy == sum_y - n * (o.height \div 2)
    IN CASE alignment_type = "left" ->
                <<n * MinOf({q.x : q \in C}), n * o.y>>
         [] alignment_type = "right" ->
                <<n * (MaxOf({q.x + q.width : q \in C}) - o.width), n * o.y>>
         [] alignment_type = "top" ->
                <<n * o.x, n * MinOf({q.y : q \in C})>>
         [] alignment_type = "bottom" ->
                <<n * o.x, n * (MaxOf({q.y + q.height : q \in C}) - o.height)>>
         [] alignment_type = "center_horizontal" -> <<cx, n * o.y>>
         [] alignment_type = "center_vertical" -> <<n * o.x, cy>>
         [] alignment_type = "center_both" -> <<cx, cy>>
         [] OTHER -> <<n * o.x, n * o.y>>

\* AlignmentHelper.align_components(self.components, alignment_type), for
\* the lists whose aligned positions are whole numbers
HelperAlignComponents(alignment_type) ==
    LET n == Len(components)
    IN /\ CalledOn("helper_align", alignment_type, FALSE)
       /\ IF n >= 2 /\ alignment_type \in HelperAlignTypes
          THEN /\ \A c \in Range(components) :
                    /\ HelperAlignedPosition(alignment_type, heap[c])[1] % n = 0
                    /\ HelperAlignedPosition(alignment_type, heap[c])[2] % n = 0
               /\ Commit([r \in DOMAIN heap |->
                            IF r \in Range(components)
                            THEN [heap[r] EXCEPT
                                    !.x = HelperAlignedPosition(alignment_type,
                                                                heap[r])[1] \div n,
                                    !.y = HelperAlignedPosition(alignment_type,
                                                                heap[r])[2] \div n]
                            ELSE heap[r]],
                         components, selected_component, selected_components)
          ELSE UNCHANGED <<heap, components, selected_component,
                           selected_components>>
       /\ UNCHANGED <<history, history_index>>
       /\ Follow(FALSE, 0)

\* AlignmentHelper._distribute_horizontal / _distribute_vertical: (n - 1)
\* times the coordinate of each component of the sorted list, placed one
\* after the other from the (already placed) component before it
RECURSIVE HelperDistributed(_, _, _, _)
HelperDistributed(srt, hor, available, placed) ==
    LET n == Len(srt)
        i == Len(placed) + 1
        size(r) == IF hor THEN heap[r].width ELSE heap[r].height
        pos(r) == IF hor THEN heap[r].x ELSE heap[r].y
    IN IF i > n THEN placed
       ELSE IF i = 1
            THEN HelperDistributed(srt, hor, available,
                                   <<(n - 1) * pos(srt[1])>>)
            ELSE HelperDistributed(srt, hor, available,
                    Append(placed, placed[i - 1]
                                     + (n - 1) * size(srt[i - 1]) + available))

HelperDistributionTypes == {"horizontal", "vertical"}

\* AlignmentHelper.distribute_components(self.components, distribution_type),
\* for the lists whose spacing is a whole number
HelperDistributeComponents(distribution_type) ==
    /\ CalledOn("helper_distribute", distribution_type, FALSE)
    /\ IF Len(components) < 3 \/ distribution_type \notin HelperDistributionTypes
       THEN UNCHANGED <<heap, components, selected_component,
                        selected_components>>
       ELSE
       LET hor == distribution_type = "horizontal"
           n == Len(components)
           pos(r) == IF hor THEN heap[r].x ELSE heap[r].y
           size(r) == IF hor THEN heap[r].width ELSE heap[r].height
           srt == SortedBy([k \in 1..n |-> pos(components[k])])
           total == pos(srt[n]) + size(srt[n]) - pos(srt[1])
           available == total - SumOver([k \in 1..n |-> size(srt[k])], n)
           placed == HelperDistributed(srt, hor, available, <<>>)
       IN /\ \A i \in 1..n : placed[i] % (n - 1) = 0
          /\ Commit([r \in DOMAIN heap |->
                       IF r \in Range(components)
                       THEN IF hor
                            THEN [heap[r] EXCEPT
                                    !.x = placed[IndexOf(srt, r)] \div (n - 1)]
                            ELSE [heap[r] EXCEPT
                                    !.y = placed[IndexOf(srt, r)] \div (n - 1)]
                       ELSE heap[r]],
                    components, selected_component, selected_components)
    /\ UNCHANGED <<history, history_index>>
    /\ Follow(FALSE, 0)

\* ---- AlignmentHelper.snap_to_components
\* the value one other component gives to snap_x (<<>>: it leaves snap_x as
\* it is); t and o are bounds (x, y, width, height)
SnapX(t, o) ==
    IF Abs(t.x - o.x) <= snap_threshold THEN <<o.x>>
    ELSE IF Abs((t.x + t.width) - (o.x + o.width)) <= snap_threshold
         THEN <<(o.x + o.width) - t.width>>
    ELSE IF Abs(t.x - (o.x + o.width)) <= snap_threshold
         THEN <<o.x + o.width>>
    ELSE IF Abs((t.x + t.width) - o.x) <= snap_threshold
         THEN <<o.x - t.width>>
    ELSE <<>>

SnapY(t, o) ==
    IF Abs(t.y - o.y) <= snap_threshold THEN <<o.y>>
    ELSE IF Abs((t.y + t.height) - (o.y + o.height)) <= snap_threshold
         THEN <<(o.y + o.height) - t.height>>
    ELSE IF Abs(t.y - (o.y + o.height)) <= snap_threshold
         THEN <<o.y + o.height>>
    ELSE IF Abs((t.y + t.height) - o.y) <= snap_threshold
         THEN <<o.y - t.height>>
    ELSE <<>>

\* the loop over other_components: <<snap_x, snap_y>> after it
RECURSIVE SnapLoop(_, _, _, _)
SnapLoop(target, others, snap_x, snap_y) ==
    IF others = <<>> THEN <<snap_x, snap_y>>
    ELSE IF Head(others) = target
         THEN SnapLoop(target, Tail(others), snap_x, snap_y)
         ELSE LET sx == SnapX(heap[target], heap[Head(others)])
                  sy == SnapY(heap[target], heap[Head(others)])
              IN SnapLoop(target, Tail(others),
                          IF sx # <<>> THEN sx ELSE snap_x,
                          IF sy # <<>> THEN sy ELSE snap_y)

\* snap_to_components(target, others): the position it leaves the target at
\* and the value it returns
snap_to_components(target, others) ==
    LET snap == SnapLoop(target, others, <<>>, <<>>)
        new_x == IF snap[1] # <<>> THEN snap[1][1] ELSE heap[target].x
        new_y == IF snap[2] # <<>> THEN snap[2][1] ELSE heap[target].y
    IN [x |-> new_x, y |-> new_y,
        ok |-> snap[1] # <<>> \/ snap[2] # <<>>]

\* snap_to_components(target, self.components)
SnapToComponents(target) ==
    LET res == snap_to_components(target, components)
    IN /\ CalledWith("snap", target, FALSE, ~res.ok)
       /\ Commit(set_position(heap, target, res.x, res.y),
                 components, selected_component, selected_components)
       /\ UNCHANGED <<history, history_index>>
       /\ Follow(FALSE, 0)

\* ---- layouts: rectangles on a coarse lattice, the first one at the origin,
\* the rows staggered
LayoutXs == {5, 8, 60}

LayoutRecord(k, x) ==
    [id |-> k, type |-> "rectangle", x |-> x,
     y |-> (IF k % 2 = 0 THEN 30 ELSE 0) + (IF k > 2 THEN 8 ELSE 0),
     width |-> IF k % 2 = 1 THEN 30 ELSE 20, height |-> 20, text |-> ""]

LayoutDesigns ==
    LET n == MaxLayoutObjects
    IN {[version |-> "1.0",
         components |-> [k \in 1..n |->
                           LayoutRecord(k, IF k = 1 THEN 0 ELSE xs[k])]] :
           xs \in [2..n -> LayoutXs]}

LayoutAlignTypes == {"left", "right", "top", "bottom", "center_horizontal",
                     "center_vertical"}

InitLayout == /\ \E data \in LayoutDesigns : Started(data)
              /\ ops = MaxLayoutOps
              /\ navs = 0
              /\ cap = MaxLayoutObjects

NextLayout ==
    \/ \E a \in LayoutAlignTypes : AlignComponents(a)
    \/ \E a \in HelperAlignTypes : HelperAlignComponents(a)
    \/ \E a \in HelperDistributionTypes : DistributeComponents(a)
    \/ \E a \in HelperDistributionTypes : HelperDistributeComponents(a)
    \/ \E c \in Range(components) : SnapToComponents(c)

SpecLayout == InitLayout /\ [][NextLayout]_vars

C22_AlignEdgesToExtreme ==
    [][(/\ last'.op \in {"align", "helper_align"}
        /\ last'.arg \in {"left", "right", "top", "bottom"}
        /\ Len(components) >= 2) =>
        LET t == last'.arg
            n == Len(components)
            old(k) == heap[components[k]]
            new(k) == heap'[components'[k]]
            edge(o) == CASE t = "left" -> o.x
                         [] t = "right" -> o.x + o.width
                         [] t = "top" -> o.y
                         [] t = "bottom" -> o.y + o.height
            olds == {edge(old(k)) : k \in 1..n}
            extreme == IF t \in {"left", "top"} THEN MinOf(olds) ELSE MaxOf(olds)
        IN /\ Len(components') = n
           /\ \A k \in 1..n :
                 /\ edge(new(k)) = extreme
                 /\ IF t \in {"left", "right"}
                    THEN new(k).y = old(k).y
                    ELSE new(k).x = old(k).x
                 /\ new(k).width = old(k).width
                 /\ new(k).height = old(k).height]_vars

C22_Witness ==
    /\ last.op = "align"
    /\ last.arg = "right"
    /\ last.snapped
    /\ Len(components) >= 2
    /\ get_design_data # history[Len(history)]
    /\ \A c \in Range(components) :
          heap[c].x + heap[c].width = 90

\* C26: snap_to_components(target, others) applies, on each axis, the
\* position given by the first of the others (in iteration order) that
\* matches within the threshold; an axis without a match keeps its
\* coordinate, and the result is failure exactly when no axis has a match.
C26_SnapFirstMatchWins ==
    \A target \in Range(components) :
        LET res == snap_to_components(target, components)
            t == heap[target]
            mx == {k \in DOMAIN components :
                      /\ components[k] # target
                      /\ SnapX(t, heap[components[k]]) # <<>>}
            my == {k \in DOMAIN components :
                      /\ components[k] # target
                      /\ SnapY(t, heap[components[k]]) # <<>>}
        IN /\ res.x = IF mx = {} THEN t.x
                      ELSE SnapX(t, heap[components[MinOf(mx)]])[1]
           /\ res.y = IF my = {} THEN t.y
                      ELSE SnapY(t, heap[components[MinOf(my)]])[1]
           /\ res.ok = (mx # {} \/ my # {})

\* C29: from the same document with at least 2 root components, for left,
\* right, top, bottom, center_horizontal and center_vertical,
\* CanvasManager.align_components puts every root component where
\* AlignmentHelper.align_components puts it.
C29_ManagerAlignEqualsHelperAlign ==
    Len(components) >= 2 =>
        \A t \in LayoutAlignTypes : \A c \in Range(components) :
            LET n == Len(components)
                manager == AlignedPosition(t, heap[c])
                helper == HelperAlignedPosition(t, heap[c])
            IN /\ n * manager[1] = helper[1]
               /\ n * manager[2] = helper[2]

\* C27: the cursor always satisfies -1 <= history_index <= len(history) - 1,
\* it is -1 exactly when the history is empty, and right after a handler
\* that took a snapshot it is len(history) - 1.
C27_CursorWithinHistory ==
    /\ -1 <= history_index
    /\ history_index <= Len(history) - 1
    /\ (history_index = -1) <=> (history = <<>>)
    /\ last.snapped => history_index = Len(history) - 1

C27_Witness ==
    /\ last.op = "redo"
    /\ last.len = max_history
    /\ last.cursor = max_history - 2
    /\ history_index = max_history - 1

\* ================================================ MainWindow: auto-save
\* The window of a session (app/main_window.py) around the canvas manager.
\* app.phase: "launch" while __init__ has not yet checked for a recovery
\*   file, "running" while the Tk main loop runs, "closed" after destroy.
\* app.is_modified, app.auto_save_enabled, app.auto_save_running: the
\*   attributes of these names.
\* app.since_last: clock ticks since last_auto_save_time; app.since_mod:
\*   clock ticks since the last call of mark_modified (or the launch); both
\*   stop counting at IntervalTicks, the value of auto_save_interval.
\* app.workers: the threads running _auto_save_worker, counted by where they
\*   are: in time.sleep(10), or past the check of auto_save_running that
\*   follows it.
\* app.pending: the _perform_auto_save callbacks that root.after(0, ..) has
\*   queued and the main loop has not run yet.
\* app.auto_save_file: "none", or who wrote the file: "previous" (an earlier
\*   session), "corrupt" (unreadable), "current" (this session).
\* app.recovery: the answer given to the recovery prompt ("none": no prompt
\*   was answered).
\* app.ui: "idle" between two events of the main loop, "restoring" while
\*   CanvasManager._restore_state has emptied the root sequence and not yet
\*   rebuilt it.
MaxAutoOps == 3
MaxAutoObjects == 2
MaxWorkers == 2
MaxPending == 1
IntervalTicks == 2

\* MainWindow.mark_modified
mark_modified(a) ==
    [a EXCEPT !.is_modified = TRUE, !.since_last = 0, !.since_mod = 0]

LiveWorkers(a) == a.workers.sleep + a.workers.awake

\* MainWindow.start_auto_save
start_auto_save(a) ==
    IF ~a.auto_save_running
    THEN [a EXCEPT !.auto_save_running = TRUE,
                   !.workers.sleep = @ + 1]
    ELSE a

\* MainWindow.stop_auto_save: the join gives up after 1 s, a worker in its
\* 10 s sleep is still there when it returns
stop_auto_save(a) == [a EXCEPT !.auto_save_running = FALSE]

\* the condition under which _auto_save_worker schedules an auto-save
auto_save_due(a) ==
    /\ a.is_modified
    /\ a.since_last >= IntervalTicks
    /\ components # <<>>

\* (variant: the worker leaves its loop after the first sleep)
worker_continues_never(a) == FALSE

\* `if not self.auto_save_running: break` after the sleep
worker_continues(a) == a.auto_save_running

\* a step of the session: a user action (counted in ops) or a step of the
\* worker, the clock or the main loop
AutoStep(name, arg, user, snapped, error) ==
    /\ app.phase = "running"
    /\ user => ops > 0
    /\ ops' = IF user THEN ops - 1 ELSE ops
    /\ last' = [op |-> name, arg |-> arg, cursor |-> history_index,
                len |-> Len(history), snapped |-> snapped, error |-> error]
    /\ UNCHANGED <<navs, cap, preDoc, law, script>>

\* MainWindow.__init__ from check_auto_save_recovery on: the recovery prompt
\* (answer: the user accepts), then start_auto_save when enabled
CheckAutoSaveRecovery(answer) ==
    /\ app.phase = "launch"
    /\ LET prompted == app.auto_save_file = "previous"
           checked ==
             [app EXCEPT
                !.phase = "running",
                !.recovery = IF ~prompted THEN "none"
                             ELSE IF answer THEN "accepted" ELSE "declined",
                !.is_modified = prompted /\ answer,
                !.auto_save_file =
                    IF app.auto_save_file = "corrupt" THEN "none"
                    ELSE IF prompted /\ ~answer THEN "none"
                    ELSE app.auto_save_file]
       IN /\ IF prompted /\ answer THEN load_design(SavedDesign)
             ELSE UNCHANGED progVars
          /\ app' = IF app.auto_save_enabled THEN start_auto_save(checked)
                    ELSE checked
          /\ last' = [op |-> "recovery",
                      arg |-> IF prompted THEN answer ELSE None,
                      cursor |-> history_index, len |-> Len(history),
                      snapped |-> FALSE, error |-> FALSE]
    /\ UNCHANGED <<ops, navs, cap, preDoc, law, script>>

\* MainWindow.add_component
MwAddComponent(t) ==
    /\ AutoStep("add", t, TRUE, TRUE, FALSE)
    /\ app.ui = "idle"
    /\ t \in component_classes
    /\ add_component(t)
    /\ app' = mark_modified(app)

\* MainWindow.undo up to the point where _restore_state has emptied the
\* root sequence (or, with nothing to undo, to its end)
MwUndoBegin ==
    /\ AutoStep("undo", None, TRUE, FALSE, FALSE)
    /\ app.ui = "idle"
    /\ IF undo_guard
       THEN /\ history_index' = history_index - 1
            /\ Commit(heap, <<>>, None, selected_components)
            /\ app' = [app EXCEPT !.ui = "restoring"]
       ELSE /\ UNCHANGED <<heap, components, selected_component,
                           selected_components, history_index>>
            /\ app' = mark_modified(app)
    /\ UNCHANGED history

\* the rest of MainWindow.undo: _restore_state rebuilds the components,
\* then mark_modified
MwUndoEnd ==
    /\ AutoStep("undo_end", None, FALSE, FALSE, FALSE)
    /\ app.ui = "restoring"
    /\ restore_state(PyIndex(history, history_index))
    /\ UNCHANGED <<history, history_index>>
    /\ app' = mark_modified([app EXCEPT !.ui = "idle"])

\* MainWindow.save_file (the write succeeds)
MwSaveFile ==
    /\ AutoStep("save", None, TRUE, FALSE, FALSE)
    /\ app.ui = "idle"
    /\ UNCHANGED progVars
    /\ app' = [app EXCEPT !.is_modified = FALSE]

\* MainWindow.toggle_auto_save
MwToggleAutoSave ==
    /\ AutoStep("toggle", ~app.auto_save_enabled, TRUE, FALSE, FALSE)
    /\ app.ui = "idle"
    /\ app.auto_save_enabled \/ app.auto_save_running
                             \/ LiveWorkers(app) < MaxWorkers
    /\ UNCHANGED progVars
    /\ app' = IF ~app.auto_save_enabled
              THEN start_auto_save([app EXCEPT !.auto_save_enabled = TRUE])
              ELSE stop_auto_save([app EXCEPT !.auto_save_enabled = FALSE])

CloseChoices == {"save", "discard", "cancel"}

\* MainWindow.on_closing; choice: the answer to confirm_discard_changes
\* when it is asked
MwClose(choice) ==
    /\ AutoStep("close", choice, TRUE, FALSE, FALSE)
    /\ app.ui = "idle"
    /\ UNCHANGED progVars
    /\ LET saved == IF app.is_modified /\ choice = "save"
                    THEN [app EXCEPT !.is_modified = FALSE] ELSE app
       IN app' = IF app.is_modified /\ choice = "cancel" THEN app
                 ELSE [stop_auto_save(saved) EXCEPT
                         !.phase = "closed",
                         !.auto_save_file =
                             IF ~saved.is_modified THEN "none" ELSE @]

\* _auto_save_worker: a thread returns from time.sleep(10) and checks
\* auto_save_running
WorkerWake ==
    /\ AutoStep("worker_wake", None, FALSE, FALSE, FALSE)
    /\ app.workers.sleep > 0
    /\ UNCHANGED progVars
    /\ app' = IF worker_continues(app)
              THEN [app EXCEPT !.workers.sleep = @ - 1,
                               !.workers.awake = @ + 1]
              ELSE [app EXCEPT !.workers.sleep = @ - 1]

\* _auto_save_worker: the rest of the loop body and the loop condition; the
\* argument recorded is what the thread did: "not_due" (it did not get to
\* read the components), "empty" (it read them and found none), "scheduled"
WorkerCheck ==
    LET read == app.is_modified /\ app.since_last >= IntervalTicks
        due == auto_save_due(app)
        after == IF due THEN [app EXCEPT !.pending = @ + 1, !.since_last = 0]
                 ELSE app
    IN /\ AutoStep("worker_check",
                   IF due THEN "scheduled" ELSE IF read THEN "empty"
                   ELSE "not_due", FALSE, FALSE, FALSE)
       /\ app.workers.awake > 0
       /\ due => app.pending < MaxPending
       /\ UNCHANGED progVars
       /\ app' = IF app.auto_save_running
                 THEN [after EXCEPT !.workers.awake = @ - 1,
                                    !.workers.sleep = @ + 1]
                 ELSE [after EXCEPT !.workers.awake = @ - 1]

\* MainWindow._perform_auto_save, run by the main loop; ok: the file could
\* be written
PerformAutoSave(ok) ==
    /\ AutoStep("perform_auto_save", None, FALSE, FALSE, ~ok)
    /\ app.ui = "idle"
    /\ app.pending > 0
    /\ UNCHANGED progVars
    /\ app' = [app EXCEPT !.pending = @ - 1,
                          !.auto_save_file = IF ok THEN "current" ELSE @]

\* time.time() moves on by one tick
Tick ==
    /\ AutoStep("tick", None, FALSE, FALSE, FALSE)
    /\ app.ui = "idle"
    /\ app.since_last < IntervalTicks \/ app.since_mod < IntervalTicks
    /\ UNCHANGED progVars
    /\ app' = [app EXCEPT
                 !.since_last = IF @ < IntervalTicks THEN @ + 1 ELSE @,
                 !.since_mod = IF @ < IntervalTicks THEN @ + 1 ELSE @]

AutoSaveFiles == {"none", "previous", "corrupt"}

InitAuto ==
    /\ NewManager(EmptyDesign)
    /\ \E f \in AutoSaveFiles, enabled \in BOOLEAN :
          app = [phase |-> "launch", is_modified |-> FALSE,
                 auto_save_enabled |-> enabled, auto_save_running |-> FALSE,
                 since_last |-> 0, since_mod |-> 0,
                 workers |-> [sleep |-> 0, awake |-> 0], pending |-> 0,
                 auto_save_file |-> f, recovery |-> "none", ui |-> "idle"]
    /\ ops = MaxAutoOps
    /\ navs = 0
    /\ cap = MaxAutoObjects

UserStep ==
    \/ MwAddComponent("rectangle")
    \/ MwUndoBegin
    \/ MwSaveFile
    \/ MwToggleAutoSave
    \/ \E choice \in CloseChoices : MwClose(choice)

NextAuto ==
    \/ \E answer \in BOOLEAN : CheckAutoSaveRecovery(answer)
    \/ UserStep
    \/ MwUndoEnd
    \/ WorkerWake
    \/ WorkerCheck
    \/ \E ok \in BOOLEAN : PerformAutoSave(ok)
    \/ Tick

SpecAuto == InitAuto /\ [][NextAuto]_vars

\* the worker threads, the clock and the main loop keep running
SpecAutoLive ==
    /\ SpecAuto
    /\ WF_vars(MwUndoEnd)
    /\ WF_vars(WorkerWake)
    /\ WF_vars(WorkerCheck)
    /\ WF_vars(\E ok \in BOOLEAN : PerformAutoSave(ok))
    /\ WF_vars(Tick)

\* C23: once the recovery prompt has been answered, with yes or with no,
\* the auto-save file that caused it no longer exists.
C23_RecoveryFileGoneAfterAnswer ==
    app.phase # "none" =>
        (app.recovery # "none" => app.auto_save_file # "previous")

\* C24: whenever the auto-save file is written, the document has unsaved
\* modifications at that moment and its last modification is at least the
\* configured interval old.
C24_WriteOnlyWhenModifiedAndAged ==
    [][(last'.op = "perform_auto_save" /\ ~last'.error) =>
          (app.is_modified /\ app.since_mod >= IntervalTicks)]_vars

\* C25: the auto-save path (worker thread, scheduled save) never changes
\* the document, and it reads the components only between two complete
\* mutations, never while one is partially applied.
C25_AutoSaveReadsBetweenMutations ==
    [][/\ last'.op \in {"worker_wake", "worker_check", "perform_auto_save"}
            => UNCHANGED progVars
       /\ (last'.op = "worker_check" /\ last'.arg \in {"empty", "scheduled"})
            => app.ui = "idle"
       /\ last'.op = "perform_auto_save" => app.ui = "idle"]_vars

\* C28: at most one thread runs the auto-save loop at any time, and no
\* worker schedules an auto-save after stop_auto_save (while
\* auto_save_running is false).
C28_SingleWorkerNoScheduleAfterStop ==
    [][/\ app'.phase = "running" => LiveWorkers(app') <= 1
       /\ (last'.op = "worker_check" /\ last'.arg = "scheduled")
            => app.auto_save_running]_vars

====
